---- MODULE Spec2Model ----
(***************************************************************************)
(* A model of src/iex_data.py: class API, a synchronous client that        *)
(* validates symbols against the server's reference list, issues HTTP GETs *)
(* and reshapes the JSON answers into pandas DataFrames.                    *)
(*                                                                         *)
(* Every value a DataFrame cell, a JSON document or a Python result can    *)
(* hold is a record with a "kind" field, so that values of different       *)
(* Python types can be compared.  An int64 epoch-millisecond value n is    *)
(* held as the pair q = n div 1000, r = n mod 1000 (n itself exceeds the   *)
(* 32-bit integers of the model checker; int64 does not overflow here).    *)
(* json_normalize is modelled on flat objects (the dotted names it gives   *)
(* nested objects are not exercised by any property below).                *)
(***************************************************************************)
EXTENDS Integers, Sequences, FiniteSets, TLC

\* ---------------------------------------------------------------- bounds
MaxLen == 2          \* longest list of securities a caller passes
MaxRows == 2         \* longest array the server answers a per-symbol GET with

\* ---------------------------------------------------------------- values
None == [kind |-> "None"]
NaN == [kind |-> "NaN"]
NaT == [kind |-> "NaT"]
Str(s) == [kind |-> "str", v |-> s]
PyInt(n) == [kind |-> "int", v |-> n]
PyList(items) == [kind |-> "list", items |-> items]
\* a column of a DataFrame
Series(values) == [kind |-> "Series", values |-> values]
\* the int64 q*1000 + r
EpochMs(q, r) == [kind |-> "int64", q |-> q, r |-> r]
\* a JSON string holding an ISO-8601 date-time
IsoStr(y, mo, d, h, mi, s) ==
    [kind |-> "isostr", y |-> y, mo |-> mo, d |-> d, h |-> h, mi |-> mi, s |-> s]
Timestamp(y, mo, d, h, mi, s, ms) ==
    [kind |-> "Timestamp", year |-> y, month |-> mo, day |-> d,
     hour |-> h, minute |-> mi, second |-> s, ms |-> ms]
Raise(exc) == [kind |-> "raise", exc |-> exc]
IsRaise(v) == v.kind = "raise"

\* JSON documents
JArr(items) == [kind |-> "array", items |-> items]
JObj(fields) == [kind |-> "object", fields |-> fields]
\* what urlopen / json.loads can do instead of giving a document
NetworkFailure == [kind |-> "urlerror"]
MalformedBody == [kind |-> "badjson"]

\* ---------------------------------------------------------------- helpers
Range(s) == {s[k] : k \in 1..Len(s)}

RECURSIVE Concat(_)
Concat(ss) == IF ss = <<>> THEN <<>> ELSE Head(ss) \o Concat(Tail(ss))

\* str.join
RECURSIVE Join(_, _)
Join(sep, strs) ==
    IF strs = <<>> THEN ""
    ELSE IF Len(strs) = 1 THEN strs[1]
    ELSE strs[1] \o sep \o Join(sep, Tail(strs))

\* str() of a small non-negative int, as str.format renders it
DigitChars == <<"0", "1", "2", "3", "4", "5", "6", "7", "8", "9">>
RECURSIVE PyStr(_)
PyStr(n) == IF n < 10 THEN DigitChars[n + 1] ELSE PyStr(n \div 10) \o DigitChars[(n % 10) + 1]

\* ---------------------------------------------------------------- pandas
\* the column names of the model in Python's sort order
AllColumns ==
    <<"actualEPS", "close", "date", "datetime", "earnings", "financials",
      "fiscalPeriod", "headline", "lastSalePrice", "lastSaleTime", "lastUpdated",
      "name", "price", "related", "reportDate", "source", "summary", "symbol",
      "time", "totalRevenue", "url">>
SortCols(S) == SelectSeq(AllColumns, LAMBDA c : c \in S)

RangeIndex(n) == [k \in 1..n |-> PyInt(k - 1)]
DataFrame(columns, index, rows) ==
    [kind |-> "DataFrame", columns |-> columns, index |-> index, rows |-> rows]
\* pd.DataFrame({})
EmptyFrame == DataFrame(<<>>, <<>>, <<>>)

\* json_normalize of a document: a list of objects gives one row per object
\* (an empty list gives the frame without columns), an object gives one row;
\* a key an object lacks is NaN in its row
NormalizeRows(objs) ==
    LET keys == UNION {DOMAIN objs[k].fields : k \in 1..Len(objs)}
        cols == SortCols(keys)
    IN DataFrame(cols, RangeIndex(Len(objs)),
                 [k \in 1..Len(objs) |->
                    [c \in keys |-> IF c \in DOMAIN objs[k].fields
                                    THEN objs[k].fields[c] ELSE NaN]])
json_normalize(data) ==
    IF data.kind = "array" THEN NormalizeRows(data.items)
    ELSE IF data.kind = "object" THEN NormalizeRows(<<data>>)
    ELSE Raise("TypeError")

\* df[col]
GetColumn(df, col) ==
    IF col \in Range(df.columns)
    THEN Series([k \in 1..Len(df.rows) |-> df.rows[k][col]])
    ELSE Raise("KeyError")
\* df[col] = series (a new column goes last)
SetColumn(df, col, series) ==
    DataFrame(IF col \in Range(df.columns) THEN df.columns ELSE Append(df.columns, col),
              df.index,
              [k \in 1..Len(df.rows) |->
                 [c \in Range(df.columns) \cup {col} |->
                    IF c = col THEN series.values[k] ELSE df.rows[k][c]]])
\* df[col] = scalar
SetScalar(df, col, value) ==
    SetColumn(df, col, Series([k \in 1..Len(df.rows) |-> value]))
\* del df[col]
DelColumn(df, col) ==
    DataFrame(SelectSeq(df.columns, LAMBDA c : c # col), df.index,
              [k \in 1..Len(df.rows) |->
                 [c \in Range(df.columns) \ {col} |-> df.rows[k][c]]])
\* df[[c1, c2, ...]]
SelectColumns(df, cols) ==
    IF Range(cols) \subseteq Range(df.columns)
    THEN DataFrame(cols, df.index,
                   [k \in 1..Len(df.rows) |-> [c \in Range(cols) |-> df.rows[k][c]]])
    ELSE Raise("KeyError")
\* df.set_index([col], inplace=True)
set_index(df, col) ==
    IF col \in Range(df.columns)
    THEN DataFrame(SelectSeq(df.columns, LAMBDA c : c # col),
                   [k \in 1..Len(df.rows) |-> df.rows[k][col]],
                   [k \in 1..Len(df.rows) |->
                      [c \in Range(df.columns) \ {col} |-> df.rows[k][c]]])
    ELSE Raise("KeyError")

\* append without ignore_index=True: the frames keep their own row labels
appendKeepIndex(left, right) ==
    IF Len(left.rows) + Len(left.columns) = 0 THEN right
    ELSE IF Len(right.rows) + Len(right.columns) = 0 THEN left
    ELSE LET cols == IF left.columns = right.columns THEN left.columns
                     ELSE SortCols(Range(left.columns) \cup Range(right.columns))
             pad(df) == [k \in 1..Len(df.rows) |->
                           [c \in Range(cols) |->
                              IF c \in Range(df.columns) THEN df.rows[k][c] ELSE NaN]]
         IN DataFrame(cols, left.index \o right.index, pad(left) \o pad(right))

\* left.append(right, ignore_index=True): concat drops a frame of shape (0, 0)
\* when the other is not; equal column lists are kept, unequal ones are united
\* (sorted, as the pandas of this code does); a missing cell is NaN; the index
\* is renumbered
PadRows(df, cols) ==
    [k \in 1..Len(df.rows) |->
       [c \in cols |-> IF c \in Range(df.columns) THEN df.rows[k][c] ELSE NaN]]
IsShapeless(df) == Len(df.rows) + Len(df.columns) = 0
append(left, right) ==
    IF IsShapeless(left) THEN DataFrame(right.columns, RangeIndex(Len(right.rows)), right.rows)
    ELSE IF IsShapeless(right) THEN DataFrame(left.columns, RangeIndex(Len(left.rows)), left.rows)
    ELSE LET cols == IF left.columns = right.columns THEN left.columns
                     ELSE SortCols(Range(left.columns) \cup Range(right.columns))
             rows == PadRows(left, Range(cols)) \o PadRows(right, Range(cols))
         IN DataFrame(cols, RangeIndex(Len(rows)), rows)

\* ---------------------------------------------------------------- timestamps
\* the proleptic Gregorian date of day number z (days since 1970-01-01, z >= 0)
CivilFromDays(z) ==
    LET z1 == z + 719468
        era == z1 \div 146097
        doe == z1 - era * 146097
        yoe == (doe - doe \div 1460 + doe \div 36524 - doe \div 146096) \div 365
        doy == doe - (365 * yoe + yoe \div 4 - yoe \div 100)
        mp == (5 * doy + 2) \div 153
        d == doy - (153 * mp + 2) \div 5 + 1
        m == IF mp < 10 THEN mp + 3 ELSE mp - 9
        y == yoe + era * 400 + (IF m <= 2 THEN 1 ELSE 0)
    IN [y |-> y, m |-> m, d |-> d]

\* pd.to_datetime(value) without unit='ms': the integer counts nanoseconds
to_datetime_ns(v) ==
    IF v.kind = "int64"
    THEN LET sod == v.q \div 1000000
         IN Timestamp(1970, 1, 1, sod \div 3600, (sod % 3600) \div 60, sod % 60,
                      (v.q % 1000000) \div 1000)
    ELSE IF v.kind = "NaN" THEN NaT
    ELSE Raise("ValueError")

\* pd.to_datetime(value, unit='ms') of one cell
to_datetime_ms(v) ==
    IF v.kind = "int64"
    THEN LET date == CivilFromDays(v.q \div 86400)
             sod == v.q % 86400
         IN Timestamp(date.y, date.m, date.d,
                      sod \div 3600, (sod % 3600) \div 60, sod % 60, v.r)
    ELSE IF v.kind = "NaN" THEN NaT
    ELSE Raise("ValueError")
\* pd.to_datetime(value) of one cell holding an ISO-8601 string
to_datetime_iso(v) ==
    IF v.kind = "isostr" THEN Timestamp(v.y, v.mo, v.d, v.h, v.mi, v.s, 0)
    ELSE IF v.kind = "NaN" THEN NaT
    ELSE Raise("ValueError")
\* pd.to_datetime over a column (a failed column lookup propagates)
ToDatetimeMs(series) ==
    IF IsRaise(series) THEN series
    ELSE LET out == [k \in 1..Len(series.values) |-> to_datetime_ms(series.values[k])]
         IN IF \E k \in 1..Len(out) : IsRaise(out[k]) THEN Raise("ValueError")
            ELSE Series(out)
ToDatetimeIso(series) ==
    IF IsRaise(series) THEN series
    ELSE LET out == [k \in 1..Len(series.values) |-> to_datetime_iso(series.values[k])]
         IN IF \E k \in 1..Len(out) : IsRaise(out[k]) THEN Raise("ValueError")
            ELSE Series(out)

\* ---------------------------------------------------------------- the client's pure parts
EndPointPrefix == "https://api.iextrading.com/1.0/"
InvalidMessage == "These stock(s) are invalid!"

\* _url_to_dataframe that forgets its nest parameter
_url_to_dataframe_NoNest(body, nest) ==
    IF body = NetworkFailure THEN Raise("URLError")
    ELSE IF body = MalformedBody THEN Raise("JSONDecodeError")
    ELSE json_normalize(body)

\* _url_to_dataframe that catches the failure of the GET or of json.loads and
\* gives an empty frame
_url_to_dataframe_Swallow(body, nest) ==
    IF body \in {NetworkFailure, MalformedBody} THEN EmptyFrame
    ELSE IF nest # ""
         THEN IF body.kind = "object" /\ nest \in DOMAIN body.fields
              THEN json_normalize(body.fields[nest])
              ELSE Raise("KeyError")
         ELSE json_normalize(body)

\* _url_to_dataframe, given what the GET answered; nest = "" stands for None
\* (both are false in "if nest:")
_url_to_dataframe(body, nest) ==
    IF body = NetworkFailure THEN Raise("URLError")
    ELSE IF body = MalformedBody THEN Raise("JSONDecodeError")
    ELSE IF nest # ""
         THEN IF body.kind = "object" /\ nest \in DOMAIN body.fields
              THEN json_normalize(body.fields[nest])
              ELSE Raise("KeyError")
         ELSE json_normalize(body)

\* return_valid_securities that walks the reference list instead of the request
return_valid_securities_RefOrder(securities, body) ==
    IF body \in {NetworkFailure, MalformedBody} \/ body.items = <<>> THEN Raise("KeyError")
    ELSE PyList(SelectSeq([k \in 1..Len(body.items) |-> body.items[k].fields["symbol"].v],
                          LAMBDA x : x \in Range(securities)))

\* return_valid_securities, given what the GET of ref-data/symbols answered
return_valid_securities(securities, body) ==
    LET valid_securities == LET df == _url_to_dataframe(body, "")
                            IN IF IsRaise(df) THEN df ELSE GetColumn(df, "symbol")
    IN IF IsRaise(valid_securities) THEN valid_securities
       ELSE PyList(SelectSeq(securities,
                             LAMBDA x : Str(x) \in Range(valid_securities.values)))

\* lines 82-85: the frame get_latest_quote_and_trade returns
QuoteFrame(body) ==
    LET df0 == _url_to_dataframe(body, "")
    IN IF IsRaise(df0) THEN df0
       ELSE LET t1 == ToDatetimeMs(GetColumn(df0, "lastSaleTime"))
            IN IF IsRaise(t1) THEN t1
               ELSE LET df1 == SetColumn(df0, "lastSaleTime", t1)
                        t2 == ToDatetimeMs(GetColumn(df1, "lastUpdated"))
                    IN IF IsRaise(t2) THEN t2
                       ELSE set_index(SetColumn(df1, "lastUpdated", t2), "symbol")

\* lines 103-105: the frame get_latest_trade returns
TradeFrame(body) ==
    LET df0 == _url_to_dataframe(body, "")
    IN IF IsRaise(df0) THEN df0
       ELSE LET t == ToDatetimeMs(GetColumn(df0, "time"))
            IN IF IsRaise(t) THEN t
               ELSE set_index(SetColumn(df0, "time", t), "symbol")

\* the frame of one symbol's news without the column selection of line 133
NewsFrameUnordered(body, symbol) ==
    LET df0 == _url_to_dataframe(body, "")
    IN IF IsRaise(df0) THEN df0
       ELSE LET t == ToDatetimeIso(GetColumn(df0, "datetime"))
            IN IF IsRaise(t) THEN t
               ELSE SetScalar(DelColumn(SetColumn(df0, "time", t), "datetime"),
                              "symbol", Str(symbol))

\* lines 129-133: the frame of one symbol's news
NewsColumns == <<"symbol", "time", "headline", "summary", "source", "url", "related">>
NewsFrame(body, symbol) ==
    LET df0 == _url_to_dataframe(body, "")
    IN IF IsRaise(df0) THEN df0
       ELSE LET t == ToDatetimeIso(GetColumn(df0, "datetime"))
            IN IF IsRaise(t) THEN t
               ELSE SelectColumns(
                        SetScalar(DelColumn(SetColumn(df0, "time", t), "datetime"),
                                  "symbol", Str(symbol)),
                        NewsColumns)

\* the frame of one symbol's financials or earnings without the symbol column
NestedFrameUntagged(body, nest, symbol) == _url_to_dataframe(body, nest)

\* lines 155-156, 178-179: the frame of one symbol's financials or earnings
NestedFrame(body, nest, symbol) ==
    LET df0 == _url_to_dataframe(body, nest)
    IN IF IsRaise(df0) THEN df0 ELSE SetScalar(df0, "symbol", Str(symbol))

\* lines 204-205: the frame of one symbol's bars
BarsFrame(body, symbol) ==
    LET df0 == _url_to_dataframe(body, "")
    IN IF IsRaise(df0) THEN df0 ELSE SetScalar(df0, "symbol", Str(symbol))

\* ---------------------------------------------------------------- the server
Symbols == {"AAPL", "IBM", "MSFT"}
\* the lists of securities a caller passes
SecurityLists == UNION {[1..n -> Symbols] : n \in 0..MaxLen}
Counts == {1, 12}
Buckets == {"1y", "10y"}

\* the epoch-millisecond values 1500000000000 and 1456790399999
E1 == EpochMs(1500000000, 0)
E2 == EpochMs(1456790399, 999)

\* GET ref-data/symbols: an array of symbol-info objects
SymbolInfo(s) == JObj([symbol |-> Str(s), name |-> Str(s \o " Inc.")])
RefLists == {<<>>, <<"MSFT">>, <<"AAPL", "IBM">>, <<"IBM", "MSFT", "AAPL">>}
RefBodies == {JArr([k \in 1..Len(l) |-> SymbolInfo(l[k])]) : l \in RefLists}

\* GET tops?symbols=...: per requested symbol no object, or one of three shapes
Shapes == {"none", "a", "b", "c"}
TopsRow(s, shape) ==
    IF shape = "a"
    THEN JObj([symbol |-> Str(s), lastSalePrice |-> PyInt(1),
               lastSaleTime |-> E1, lastUpdated |-> E2])
    ELSE IF shape = "b"
    THEN JObj([symbol |-> Str(s), lastSalePrice |-> PyInt(2),
               lastSaleTime |-> E2, lastUpdated |-> E1])
    ELSE JObj([symbol |-> Str(s), lastSalePrice |-> PyInt(3), lastSaleTime |-> E1])
\* GET tops/last?symbols=...
LastRow(s, shape) ==
    IF shape = "a" THEN JObj([symbol |-> Str(s), price |-> PyInt(1), time |-> E1])
    ELSE IF shape = "b" THEN JObj([symbol |-> Str(s), price |-> PyInt(2), time |-> E2])
    ELSE JObj([symbol |-> Str(s), price |-> PyInt(3)])
TopsBodies(secs) ==
    {JArr(Concat([k \in 1..Len(secs) |->
                    IF pick[k] = "none" THEN <<>> ELSE <<TopsRow(secs[k], pick[k])>>]))
        : pick \in [1..Len(secs) -> Shapes]}
LastBodies(secs) ==
    {JArr(Concat([k \in 1..Len(secs) |->
                    IF pick[k] = "none" THEN <<>> ELSE <<LastRow(secs[k], pick[k])>>]))
        : pick \in [1..Len(secs) -> Shapes]}

\* GET stock/{symbol}/news/last/{count}: an array of news objects (variant 2:
\* objects without the datetime field)
NewsItem(j, variant) ==
    IF variant = 1
    THEN JObj([datetime |-> IsoStr(2017, 7, 14, 2, 40, j),
               headline |-> Str("headline " \o PyStr(j)), summary |-> Str("summary"),
               source |-> Str("source"), url |-> Str("url " \o PyStr(j)),
               related |-> Str("related")])
    ELSE JObj([headline |-> Str("headline " \o PyStr(j)), summary |-> Str("summary"),
               source |-> Str("source"), url |-> Str("url " \o PyStr(j)),
               related |-> Str("related")])
NewsBodies ==
    {JArr([j \in 1..n |-> NewsItem(j, variant)]) : n \in 0..MaxRows, variant \in {1, 2}}

\* GET stock/{symbol}/financials and .../earnings: an object holding the array
\* under its key, or the object {} the server gives when it has no data
FinancialsItem(j) ==
    JObj([reportDate |-> IsoStr(2017, 3 * j, 30, 0, 0, 0), totalRevenue |-> PyInt(j)])
EarningsItem(j) ==
    JObj([fiscalPeriod |-> Str("Q" \o PyStr(j)), actualEPS |-> PyInt(j)])
FinancialsBodies(symbol) ==
    {JObj([symbol |-> Str(symbol), financials |-> JArr([j \in 1..n |-> FinancialsItem(j)])])
        : n \in 0..MaxRows} \cup {JObj(<<>>)}
EarningsBodies(symbol) ==
    {JObj([symbol |-> Str(symbol), earnings |-> JArr([j \in 1..n |-> EarningsItem(j)])])
        : n \in 0..MaxRows} \cup {JObj(<<>>)}

\* GET stock/{symbol}/chart/{bucket}: an array of bar objects, dated by a
\* string (variant 1) or by an epoch-millisecond integer (variant 2)
BarItem(j, variant) ==
    JObj([date |-> IF variant = 1 THEN IsoStr(2017, 7, 13 + j, 0, 0, 0) ELSE E1,
          close |-> PyInt(100 + j)])
BarsBodies ==
    {JArr([j \in 1..n |-> BarItem(j, variant)]) : n \in 0..MaxRows, variant \in {1, 2}}

Failures == {NetworkFailure, MalformedBody}

\* ---------------------------------------------------------------- state
VARIABLES
    end_point_prefix,   \* self._end_point_prefix
    pc,                 \* "idle", "validate", "fetch", "returned" or "raised"
    op,                 \* the method the caller is in
    requested,          \* the securities argument as the caller passed it
    arg,                \* count (get_latest_news) or bucket (get_trade_bars_data)
    securities,         \* the local variable securities
    i,                  \* the position of the for loop in securities
    final_df,           \* the local variable final_df
    result,             \* what the call returned, or the exception it raised
    printed,            \* what the call printed
    gets,               \* the GETs of the call, in order, with their answers
    prevRef             \* the answer to the previous call's GET of ref-data/symbols

vars == <<end_point_prefix, pc, op, requested, arg, securities, i, final_df,
          result, printed, gets, prevRef>>

\* the URLs
RefUrl(prefix) == prefix \o "ref-data/symbols"
QuoteUrl(prefix, secs) == prefix \o "tops?symbols=" \o Join(",", secs)
\* the URL of get_latest_trade built from the list as the caller passed it
TradeUrlRequested(prefix, secs) ==
    prefix \o "tops/last?symbols=" \o Join(",", requested)
TradeUrl(prefix, secs) == prefix \o "tops/last?symbols=" \o Join(",", secs)
NewsUrl(prefix, symbol, count) ==
    prefix \o "stock/" \o symbol \o "/news/last/" \o PyStr(count)
FinancialsUrl(prefix, symbol) == prefix \o "stock/" \o symbol \o "/financials"
EarningsUrl(prefix, symbol) == prefix \o "stock/" \o symbol \o "/earnings"
BarsUrl(prefix, symbol, bucket) == prefix \o "stock/" \o symbol \o "/chart/" \o bucket

BatchOps == {"get_latest_quote_and_trade", "get_latest_trade"}
LoopOps == {"get_latest_news", "get_financials", "get_earnings", "get_trade_bars_data"}
Ops == {"return_valid_securities"} \cup BatchOps \cup LoopOps

\* API(): __init__
Init ==
    /\ end_point_prefix = EndPointPrefix
    /\ pc = "idle"
    /\ op = "none"
    /\ requested = <<>>
    /\ arg = None
    /\ securities = <<>>
    /\ i = 0
    /\ final_df = None
    /\ result = None
    /\ printed = <<>>
    /\ gets = <<>>
    /\ prevRef = None

\* the values of the second parameter of a method
Args(o) ==
    IF o = "get_latest_news" THEN {PyInt(count) : count \in Counts}
    ELSE IF o = "get_trade_bars_data" THEN {Str(bucket) : bucket \in Buckets}
    ELSE {None}

\* the caller enters one of the methods
Invoke ==
    /\ pc = "idle"
    /\ \E o \in Ops, secs \in SecurityLists :
          /\ op' = o
          /\ requested' = secs
          /\ securities' = secs
          /\ \E a \in Args(o) : arg' = a
    /\ pc' = "validate"
    /\ UNCHANGED <<end_point_prefix, i, final_df, result, printed, gets, prevRef>>

\* the call is over (it returned or raised): its frame and what it returned
\* are gone, the client object stays
Return ==
    /\ pc \in {"returned", "raised"}
    /\ pc' = "idle"
    /\ op' = "none"
    /\ requested' = <<>>
    /\ arg' = None
    /\ securities' = <<>>
    /\ i' = 0
    /\ final_df' = None
    /\ result' = None
    /\ printed' = <<>>
    /\ gets' = <<>>
    /\ prevRef' = IF gets[1].body.kind = "array" THEN gets[1].body ELSE prevRef
    /\ UNCHANGED end_point_prefix

\* a branch that is always taken
HasValidAlways(valid) == TRUE

\* "if securities:" (a list is true when it is not empty)
HasValid(valid) == valid # <<>>

\* validation that keeps the reference list of the previous call and fetches
\* only when it has none
ValidateCached ==
    /\ pc = "validate"
    /\ \E body \in IF prevRef = None THEN RefBodies \cup Failures ELSE {prevRef} :
          LET valid == return_valid_securities(securities, body)
          IN /\ gets' = IF prevRef = None
                        THEN Append(gets, [url |-> RefUrl(end_point_prefix), body |-> body])
                        ELSE gets
             /\ IF IsRaise(valid)
                THEN /\ pc' = "raised"
                     /\ result' = valid
                     /\ UNCHANGED <<securities, final_df, printed, i>>
                ELSE IF op = "return_valid_securities"
                THEN /\ pc' = "returned"
                     /\ result' = valid
                     /\ UNCHANGED <<securities, final_df, printed, i>>
                ELSE /\ securities' = valid.items
                     /\ final_df' = IF op \in LoopOps THEN EmptyFrame ELSE final_df
                     /\ IF HasValid(valid.items)
                        THEN /\ pc' = "fetch"
                             /\ i' = 1
                             /\ UNCHANGED <<result, printed>>
                        ELSE /\ pc' = "returned"
                             /\ printed' = Append(printed, InvalidMessage)
                             /\ result' = None
                             /\ UNCHANGED i
    /\ UNCHANGED <<end_point_prefix, op, requested, arg, prevRef>>

\* return_valid_securities (lines 43-46) and, in the six operations, the
\* statements up to the branch on "if securities:" and its else branch
Validate ==
    /\ pc = "validate"
    /\ \E body \in RefBodies \cup Failures :
          LET valid == return_valid_securities(securities, body)
          IN /\ gets' = Append(gets, [url |-> RefUrl(end_point_prefix), body |-> body])
             /\ IF IsRaise(valid)
                THEN /\ pc' = "raised"
                     /\ result' = valid
                     /\ UNCHANGED <<securities, final_df, printed, i>>
                ELSE IF op = "return_valid_securities"
                THEN /\ pc' = "returned"
                     /\ result' = valid
                     /\ UNCHANGED <<securities, final_df, printed, i>>
                ELSE /\ securities' = valid.items
                     /\ final_df' = IF op \in LoopOps THEN EmptyFrame ELSE final_df
                     /\ IF HasValid(valid.items)
                        THEN /\ pc' = "fetch"
                             /\ i' = 1
                             /\ UNCHANGED <<result, printed>>
                        ELSE /\ pc' = "returned"
                             /\ printed' = Append(printed, InvalidMessage)
                             /\ result' = None
                             /\ UNCHANGED i
    /\ UNCHANGED <<end_point_prefix, op, requested, arg, prevRef>>

\* the one GET of a batched operation and the statements after it; answers
\* pairs each body the server can answer with and the frame made of it
Batch(url, answers) ==
    /\ \E a \in answers :
          /\ gets' = Append(gets, [url |-> url, body |-> a.body])
          /\ result' = a.df
          /\ pc' = IF IsRaise(a.df) THEN "raised" ELSE "returned"
    /\ UNCHANGED <<end_point_prefix, op, requested, arg, securities, i, final_df,
                   printed, prevRef>>

\* one pass of the for loop of a per-symbol operation; the pass over the last
\* symbol is followed by "return final_df"
LoopPass(url, answers) ==
    /\ \E a \in answers :
          /\ gets' = Append(gets, [url |-> url, body |-> a.body])
          /\ IF IsRaise(a.df)
             THEN /\ pc' = "raised"
                  /\ result' = a.df
                  /\ UNCHANGED <<final_df, i>>
             ELSE /\ final_df' = append(final_df, a.df)
                  /\ IF i < Len(securities)
                     THEN /\ i' = i + 1
                          /\ UNCHANGED <<pc, result>>
                     ELSE /\ pc' = "returned"
                          /\ result' = final_df'
                          /\ UNCHANGED i
    /\ UNCHANGED <<end_point_prefix, op, requested, arg, securities, printed, prevRef>>

get_latest_quote_and_trade ==
    /\ pc = "fetch" /\ op = "get_latest_quote_and_trade"
    /\ Batch(QuoteUrl(end_point_prefix, securities),
             {[body |-> body, df |-> QuoteFrame(body)] :
                 body \in TopsBodies(securities) \cup Failures})

get_latest_trade ==
    /\ pc = "fetch" /\ op = "get_latest_trade"
    /\ Batch(TradeUrl(end_point_prefix, securities),
             {[body |-> body, df |-> TradeFrame(body)] :
                 body \in LastBodies(securities) \cup Failures})

get_latest_news ==
    /\ pc = "fetch" /\ op = "get_latest_news"
    /\ LET symbol == securities[i]
       IN LoopPass(NewsUrl(end_point_prefix, symbol, arg.v),
                   {[body |-> body, df |-> NewsFrame(body, symbol)] :
                       body \in NewsBodies \cup Failures})

get_financials ==
    /\ pc = "fetch" /\ op = "get_financials"
    /\ LET symbol == securities[i]
       IN LoopPass(FinancialsUrl(end_point_prefix, symbol),
                   {[body |-> body, df |-> NestedFrame(body, "financials", symbol)] :
                       body \in FinancialsBodies(symbol) \cup Failures})

get_earnings ==
    /\ pc = "fetch" /\ op = "get_earnings"
    /\ LET symbol == securities[i]
       IN LoopPass(EarningsUrl(end_point_prefix, symbol),
                   {[body |-> body, df |-> NestedFrame(body, "earnings", symbol)] :
                       body \in EarningsBodies(symbol) \cup Failures})

get_trade_bars_data ==
    /\ pc = "fetch" /\ op = "get_trade_bars_data"
    /\ LET symbol == securities[i]
       IN LoopPass(BarsUrl(end_point_prefix, symbol, arg.v),
                   {[body |-> body, df |-> BarsFrame(body, symbol)] :
                       body \in BarsBodies \cup Failures})

Next ==
    \/ Invoke
    \/ Validate
    \/ get_latest_quote_and_trade
    \/ get_latest_trade
    \/ get_latest_news
    \/ get_financials
    \/ get_earnings
    \/ get_trade_bars_data
    \/ Return

Spec == Init /\ [][Next]_vars

\* ================================================================ properties
\* the symbols of the reference list a GET of ref-data/symbols answered
RefSymbols(body) == {body.items[k].fields.symbol.v : k \in 1..Len(body.items)}
\* the positions of req whose symbol is in the reference list
KeptPositions(req, body) == {k \in 1..Len(req) : req[k] \in RefSymbols(body)}
\* v is req restricted to the positions K, in the order of req
IsOrderedSelection(v, req, K) ==
    /\ Len(v) = Cardinality(K)
    /\ \E f \in [1..Len(v) -> 1..Len(req)] :
          /\ \A a, b \in 1..Len(v) : a < b => f[a] < f[b]
          /\ {f[a] : a \in 1..Len(v)} = K
          /\ \A a \in 1..Len(v) : v[a] = req[f[a]]
\* the call has got its reference list and filtered the request with it
ValidationDone == pc \in {"fetch", "returned"} \/ (pc = "raised" /\ Len(gets) >= 2)
ValidatedList == IF op = "return_valid_securities" THEN result.items ELSE securities
DataOps == BatchOps \cup LoopOps

RECURSIVE CommaJoined(_)
CommaJoined(strs) ==
    IF strs = <<>> THEN ""
    ELSE IF Len(strs) = 1 THEN strs[1]
    ELSE CommaJoined(SubSeq(strs, 1, Len(strs) - 1)) \o "," \o strs[Len(strs)]
\* the symbols of req at the positions K, in order
RECURSIVE Pick(_, _, _)
Pick(req, K, k) ==
    IF k > Len(req) THEN <<>>
    ELSE (IF k \in K THEN <<req[k]>> ELSE <<>>) \o Pick(req, K, k + 1)

\* C3: with at least one valid symbol, get_latest_trade and
\* get_latest_quote_and_trade print nothing and issue, after the validation
\* fetch, exactly one GET, of tops/last?symbols= (tops?symbols=) followed by
\* the valid symbols alone, comma-joined in the caller's order.
C3_BatchedRequest ==
    (op \in BatchOps /\ ValidationDone /\ KeptPositions(requested, gets[1].body) # {}) =>
        /\ printed = <<>>
        /\ Len(gets) = IF pc = "fetch" THEN 1 ELSE 2
        /\ Len(gets) = 2 =>
              gets[2].url =
                  "https://api.iextrading.com/1.0/"
                  \o (IF op = "get_latest_trade" THEN "tops/last?symbols=" ELSE "tops?symbols=")
                  \o CommaJoined(Pick(requested, KeptPositions(requested, gets[1].body), 1))

C3_Witness ==
    /\ op = "get_latest_trade"
    /\ pc = "returned"
    /\ requested = <<"AAPL", "MSFT">>
    /\ Len(gets) = 2
    /\ printed = <<>>
    /\ gets[2].url = "https://api.iextrading.com/1.0/tops/last?symbols=AAPL"
    /\ result.index = <<Str("AAPL")>>

\* the array of objects a successful per-symbol GET answered
BodyItems(o, body) ==
    IF o \in {"get_financials", "get_earnings"}
    THEN LET nest == IF o = "get_financials" THEN "financials" ELSE "earnings"
         IN IF body.kind = "object" /\ nest \in DOMAIN body.fields
            THEN body.fields[nest].items ELSE <<>>
    ELSE IF body.kind = "array" THEN body.items ELSE <<>>
\* the number of objects the passes before pass k were answered with
RECURSIVE Offset(_)
Offset(k) == IF k <= 1 THEN 0 ELSE Offset(k - 1) + Len(BodyItems(op, gets[k].body))
\* the passes of the loop that are over, in a call that has not raised
Passes == Len(gets) - 1
\* the URL of the per-symbol GET for symbol s
StockUrl(s) ==
    "https://api.iextrading.com/1.0/stock/" \o s \o
    (IF op = "get_latest_news" THEN "/news/last/" \o (IF arg.v = 1 THEN "1" ELSE "12")
     ELSE IF op = "get_financials" THEN "/financials"
     ELSE IF op = "get_earnings" THEN "/earnings"
     ELSE "/chart/" \o arg.v)
\* a per-symbol operation is in its loop or has returned its table
LoopRunning == op \in LoopOps /\ pc \in {"fetch", "returned"} /\ securities # <<>>

\* C4: in a per-symbol operation the rows of pass k all carry the symbol
\* column, equal to the k-th validated symbol, which is the symbol in the URL
\* of the GET that produced them and is in the reference list; the table has
\* no other rows, and it is the table returned.
C4_RowsTagged ==
    LoopRunning =>
        /\ Len(final_df.rows) = Offset(Passes + 1)
        /\ \A k \in 1..Passes :
              /\ securities[k] \in RefSymbols(gets[1].body)
              /\ gets[k + 1].url = StockUrl(securities[k])
              /\ \A j \in 1..Len(BodyItems(op, gets[k + 1].body)) :
                    LET row == final_df.rows[Offset(k) + j]
                    IN /\ "symbol" \in DOMAIN row
                       /\ row["symbol"] = Str(securities[k])
        /\ pc = "returned" => result = final_df

C4_Witness ==
    /\ LoopRunning
    /\ pc = "returned"
    /\ \E k \in 1..Len(requested) : requested[k] \notin RefSymbols(gets[1].body)
    /\ Len(result.rows) >= 2
    /\ \A r \in 1..Len(result.rows) : result.rows[r]["symbol"] = Str(securities[1])

\* the calendar timestamp of an epoch-millisecond cell, from the calendar
ExpectedTimestamp(fields, key) ==
    IF key \notin DOMAIN fields THEN NaT
    ELSE IF fields[key] = EpochMs(1500000000, 0) THEN Timestamp(2017, 7, 14, 2, 40, 0, 0)
    ELSE IF fields[key] = EpochMs(1456790399, 999) THEN Timestamp(2016, 2, 29, 23, 59, 59, 999)
    ELSE NaN
BatchReturned == op \in BatchOps /\ pc = "returned" /\ result.kind = "DataFrame"
QuoteTradeDecoded ==
    BatchReturned =>
        /\ Len(result.rows) = Len(gets[2].body.items)
        /\ \A k \in 1..Len(result.rows) :
              LET fields == gets[2].body.items[k].fields
                  row == result.rows[k]
              IN IF op = "get_latest_trade"
                 THEN row["time"] = ExpectedTimestamp(fields, "time")
                 ELSE /\ row["lastSaleTime"] = ExpectedTimestamp(fields, "lastSaleTime")
                      /\ row["lastUpdated"] = ExpectedTimestamp(fields, "lastUpdated")
BarsRunning == op = "get_trade_bars_data" /\ LoopRunning

\* C5 as claimed: the epoch-millisecond fields of the quote, trade and bar
\* outputs are decoded calendar timestamps (1500000000000 is
\* 2017-07-14T02:40:00), never raw integers.
C5_AllDecoded ==
    /\ QuoteTradeDecoded
    /\ BarsRunning =>
          \A r \in 1..Len(final_df.rows) : final_df.rows[r]["date"].kind = "Timestamp"

\* C5 amended: lastSaleTime and lastUpdated of the quote output and time of the
\* trade output are decoded (1500000000000 is 2017-07-14T02:40:00,
\* 1456790399999 is 2016-02-29T23:59:59.999, a missing value is NaT); the bar
\* output carries the date field of each bar exactly as the server sent it.
C5_QuoteTradeDecodedBarsRaw ==
    /\ QuoteTradeDecoded
    /\ BarsRunning =>
          \A k \in 1..Passes : \A j \in 1..Len(gets[k + 1].body.items) :
              final_df.rows[Offset(k) + j]["date"] = gets[k + 1].body.items[j].fields["date"]

C5_Witness ==
    /\ BatchReturned
    /\ op = "get_latest_quote_and_trade"
    /\ Len(result.rows) = 2
    /\ gets[2].body.items[1].fields["lastSaleTime"] = EpochMs(1500000000, 0)
    /\ result.rows[1]["lastSaleTime"] = Timestamp(2017, 7, 14, 2, 40, 0, 0)
    /\ result.rows[2]["lastSaleTime"] = Timestamp(2016, 2, 29, 23, 59, 59, 999)

\* C6: once get_latest_news has fetched a symbol's news, its table has the
\* columns symbol, time, headline, summary, source, url, related in this
\* order and no datetime column, every row has exactly these cells, and time
\* is the decoded datetime of the news object the row comes from.
C6_NewsColumns ==
    (op = "get_latest_news" /\ LoopRunning /\ Passes >= 1) =>
        /\ final_df.columns =
              <<"symbol", "time", "headline", "summary", "source", "url", "related">>
        /\ \A k \in 1..Passes : \A j \in 1..Len(gets[k + 1].body.items) :
              LET row == final_df.rows[Offset(k) + j]
                  sent == gets[k + 1].body.items[j].fields["datetime"]
              IN /\ DOMAIN row = {"symbol", "time", "headline", "summary", "source",
                                  "url", "related"}
                 /\ row["time"] =
                       Timestamp(sent.y, sent.mo, sent.d, sent.h, sent.mi, sent.s, 0)
                 /\ row["headline"] = gets[k + 1].body.items[j].fields["headline"]
        /\ pc = "returned" => result = final_df

C6_Witness ==
    /\ op = "get_latest_news"
    /\ pc = "returned"
    /\ Len(securities) = 2
    /\ Len(result.rows) >= 3
    /\ result.rows[1]["symbol"] # result.rows[Len(result.rows)]["symbol"]
    /\ result.rows[2]["time"] = Timestamp(2017, 7, 14, 2, 40, 2, 0)

NestedOps == {"get_financials", "get_earnings"}
NestedReturned == op \in NestedOps /\ LoopRunning /\ pc = "returned"
RowsTagged(s) == {r \in 1..Len(result.rows) : result.rows[r]["symbol"] = Str(s)}
RECURSIVE ItemsFor(_, _)
\* the objects the GETs of passes 1..k for symbol s were answered with
ItemsFor(s, k) ==
    IF k = 0 THEN <<>>
    ELSE ItemsFor(s, k - 1)
         \o (IF securities[k] = s THEN BodyItems(op, gets[k + 1].body) ELSE <<>>)

\* C7 as claimed: the rows get_financials (get_earnings) returns for a
\* validated symbol are as many as the array under "financials" ("earnings")
\* in the answer to that symbol's GET is long.
C7_RowsPerSymbol ==
    NestedReturned =>
        \A k \in 1..Len(securities) :
            Cardinality(RowsTagged(securities[k])) = Len(BodyItems(op, gets[k + 1].body))

\* C7 amended: the rows returned for a symbol are as many as the arrays under
\* the key in the answers to the GETs for that symbol hold together (one GET
\* per occurrence of the symbol in the validated list), and each row holds the
\* fields of one object of that array and the symbol, nothing of the top level.
C7_RowsPerOccurrence ==
    NestedReturned =>
        /\ \A s \in Range(securities) :
              Cardinality(RowsTagged(s)) = Len(ItemsFor(s, Len(securities)))
        /\ \A k \in 1..Passes : \A j \in 1..Len(BodyItems(op, gets[k + 1].body)) :
              LET row == result.rows[Offset(k) + j]
                  fields == BodyItems(op, gets[k + 1].body)[j].fields
              IN /\ DOMAIN row = DOMAIN fields \cup {"symbol"}
                 /\ \A c \in DOMAIN fields : row[c] = fields[c]

C7_Witness ==
    /\ NestedReturned
    /\ op = "get_financials"
    /\ securities = <<"IBM", "AAPL">>
    /\ Len(BodyItems(op, gets[2].body)) = 2
    /\ Len(BodyItems(op, gets[3].body)) = 1
    /\ Cardinality(RowsTagged("IBM")) = 2

\* the rows the bars of passes 1..k make, each with its symbol
RECURSIVE ExpectedBars(_)
ExpectedBars(k) ==
    IF k = 0 THEN <<>>
    ELSE ExpectedBars(k - 1)
         \o [j \in 1..Len(gets[k + 1].body.items) |->
               [close |-> gets[k + 1].body.items[j].fields["close"],
                date |-> gets[k + 1].body.items[j].fields["date"],
                symbol |-> Str(securities[k])]]

\* C8: get_trade_bars_data issues, after the validation fetch, one GET of
\* stock/{symbol}/chart/{bucket} per element of the validated list, in the
\* list's order and with the bucket as passed; the table it returns holds the
\* bars of the answers in that order, one row per bar, labelled 0, 1, 2, ...
C8_BarsSequential ==
    BarsRunning =>
        /\ Len(gets) = IF pc = "fetch" THEN i ELSE Len(securities) + 1
        /\ gets[1].url = "https://api.iextrading.com/1.0/ref-data/symbols"
        /\ \A k \in 1..Passes :
              gets[k + 1].url =
                  "https://api.iextrading.com/1.0/stock/" \o securities[k]
                  \o "/chart/" \o arg.v
        /\ pc = "returned" =>
              /\ result.rows = ExpectedBars(Len(securities))
              /\ Len(result.index) = Len(result.rows)
              /\ \A r \in 1..Len(result.index) : result.index[r] = PyInt(r - 1)

C8_Witness ==
    /\ BarsRunning
    /\ pc = "returned"
    /\ securities = <<"IBM", "AAPL">>
    /\ arg = Str("10y")
    /\ gets[2].url = "https://api.iextrading.com/1.0/stock/IBM/chart/10y"
    /\ gets[3].url = "https://api.iextrading.com/1.0/stock/AAPL/chart/10y"
    /\ Len(gets[2].body.items) = 2
    /\ Len(gets[3].body.items) = 1
    /\ result.rows[3]["symbol"] = Str("AAPL")

\* the answer to the k-th GET of the call cannot be used: the GET failed, the
\* body is no JSON, the reference list has no symbol column, or the key of
\* the nested array is missing
Unusable(k) ==
    \/ gets[k].body \in {NetworkFailure, MalformedBody}
    \/ k = 1 /\ gets[k].body.items = <<>>
    \/ k > 1 /\ op \in NestedOps /\ DOMAIN gets[k].body.fields = {}

\* C9: a GET whose answer cannot be used ends the call with the exception: it
\* is the last GET of the call (no retry, none for the remaining symbols),
\* nothing is printed and no table is returned; a call that returned a table
\* for a per-symbol operation fetched every validated symbol; the diagnostic
\* is printed only when no requested symbol is valid.
C9_FailuresPropagate ==
    /\ \A k \in 1..Len(gets) : Unusable(k) => (pc = "raised" /\ k = Len(gets))
    /\ pc = "raised" =>
          /\ IsRaise(result)
          /\ printed = <<>>
          /\ Len(gets) = IF i = 0 THEN 1 ELSE i + 1
    /\ (LoopRunning /\ pc = "returned") => Passes = Len(securities)
    /\ printed # <<>> =>
          (pc = "returned" /\ result = None /\ KeptPositions(requested, gets[1].body) = {})

C9_Witness ==
    /\ pc = "raised"
    /\ op \in LoopOps
    /\ Len(securities) = 2
    /\ i = 1
    /\ Len(gets) = 2
    /\ gets[2].body = MalformedBody
    /\ result = Raise("JSONDecodeError")

\* C10: every call starts with one GET of ref-data/symbols under the prefix
\* set at construction and issues no other GET of it; the list it validates
\* with is the one that GET returned, whatever an earlier call was given; the
\* prefix never changes.
C10_FreshReferenceList ==
    /\ end_point_prefix = "https://api.iextrading.com/1.0/"
    /\ pc \in {"fetch", "returned", "raised"} =>
          /\ gets # <<>>
          /\ gets[1].url = "https://api.iextrading.com/1.0/ref-data/symbols"
          /\ \A k \in 2..Len(gets) : gets[k].url # gets[1].url
    /\ ValidationDone =>
          ValidatedList = Pick(requested, KeptPositions(requested, gets[1].body), 1)

C10_Witness ==
    /\ ValidationDone
    /\ prevRef # None
    /\ \E s \in Range(requested) :
          /\ s \in RefSymbols(prevRef)
          /\ s \notin RefSymbols(gets[1].body)
          /\ s \notin Range(ValidatedList)
    /\ \E s \in Range(requested) :
          /\ s \notin RefSymbols(prevRef)
          /\ s \in Range(ValidatedList)

====
